---- MODULE Spec2Model ----
(***************************************************************************)
(* A model of the browser-side controllers of the Theory-of-Space site:    *)
(*   - the trajectory viewer (src/src/scripts/trajectoryViewer.ts),        *)
(*   - the dataset viewer    (src/src/scripts/datasetViewer.js).           *)
(* JavaScript runs one handler at a time; every action below is one        *)
(* handler (or the part of an async function between two awaits).          *)
(***************************************************************************)
EXTENDS Integers, Sequences, FiniteSets, TLC

\* ------------------------------------------------------------------ bounds
\* Number of steps of the longest trajectory the server holds.
MaxSteps == 3
\* Task-data fetches that may be in flight at once.
MaxInFlight == 2
\* Interval timers the browser can hold at once in the model.
MaxTimers == 2
\* Clipboard writes of the copy button that can be pending at once.
MaxWrites == 2
\* How long the page of the citation is watched, in clock steps.
MaxClock == 6

\* ------------------------------------------------- the trajectory viewer
VARIABLES
  availableTasks,      \* let availableTasks: Task[]
  taskData,            \* let taskData: Record<string, TaskData>
  currentTaskId,       \* '' is ""
  currentTrajectoryId, \* '' is ""
  currentStepIndex,
  isPlaying,
  playInterval,        \* timer handle; null is 0
  container,           \* timelineStepsContainer's content
  taskOptions,         \* taskSelect's options (their values)
  taskValue,           \* taskSelect.value
  trajOptions,         \* trajectorySelect's options
  trajValue,           \* trajectorySelect.value
  stepText,            \* currentStepElement.textContent (0: as in the page)
  totalText,           \* totalStepsElement.textContent
  panel,               \* the step whose image/description/reasoning/action show
  prevDisabled,
  nextDisabled,
  icon,                \* which icon of the play/pause button is displayed
  timers,              \* the window's active interval timers: handle -> closure
  inflight,            \* loadTaskData calls suspended at their fetch: task -> count
  pc,                  \* where init() stands: "index", "first", "ready"
  indexStatus,         \* history: "pending", "ok" or "fail", how the index fetch ended
  indexFetches,        \* history: fetches of index.json issued
  requested,           \* history: data files a fetch was issued for
  refetched,           \* history: tasks fetched again while already cached
  divZero,             \* history: a division by zero was evaluated
  last,                \* history: the handler that ran last
  raced,               \* history: the task whose data was applied, since the last
                       \* task selection, while another load was in flight ("": none)
  run                  \* history: the playback that runs undisturbed since its start

tvVars == <<availableTasks, taskData, currentTaskId, currentTrajectoryId,
            currentStepIndex, isPlaying, playInterval, container, taskOptions,
            taskValue, trajOptions, trajValue, stepText, totalText, panel,
            prevDisabled, nextDisabled, icon, timers, inflight, pc,
            indexStatus, indexFetches, requested, refetched, divZero, last,
            raced, run>>

\* ---------------------------------------------------- the dataset viewer
VARIABLES
  input,            \* what the fetch of the JSONL file brings
  allData,          \* this.allData
  filteredData,     \* this.filteredData
  currentIndex,     \* this.currentIndex
  currentLayout,    \* this.currentLayout; '' is << >>
  availableLayouts, \* this.availableLayouts
  selectOptions,    \* the options of #layout-select
  selectValue,      \* its value
  display,          \* the content of #data-display
  dvPc,             \* where init() stands: "none", "fetch", "ready", "error"
  dvLast            \* history: the handler that ran last

dvVars == <<input, allData, filteredData, currentIndex, currentLayout,
            availableLayouts, selectOptions, selectValue, display, dvPc, dvLast>>

\* ------------------------------------------------------ the citation copy
VARIABLES
  listening,   \* the click listener is attached to #copy-button
  classes,     \* copyButton.classList
  timeouts,    \* the window's pending timeouts: when due, and the class removed
  writes,      \* click handlers suspended at await clipboard.writeText
  clipboard,   \* the text on the clipboard
  clock,       \* milliseconds since the page was loaded
  copiedAt,    \* history: when 'copied' was last added (-1: never)
  ccLast       \* history: the step taken last

ccVars == <<listening, classes, timeouts, writes, clipboard, clock, copiedAt, ccLast>>

\* ----------------------------------------------------------- server files
TaskIds == {"t1", "t2", "t3"}

\* Task.dataFile of the index entry of task t.
DataFile(t) == <<"data", t>>

Task(t) == [id |-> t, dataFile |-> DataFile(t)]

\* The TaskData document the server holds for each task: its trajectories in
\* declaration order, a trajectory being its id and its steps (their number).
ServerData(t) ==
  CASE t = "t1" -> [trajectories |-> << [id |-> "a", steps |-> MaxSteps],
                                        [id |-> "b", steps |-> 1] >>]
    [] t = "t2" -> [trajectories |-> << [id |-> "a", steps |-> 2],
                                        [id |-> "c", steps |-> 0] >>]
    [] OTHER    -> [trajectories |-> << >>]

\* The index documents the server may hold: TaskIndex.tasks.
IndexFiles ==
  { << >>, <<"t1", "t3">>, <<"t2", "t1">> }

\* The options the page's markup gives the task selector before any load.
MarkupTaskOptions == { << >>, <<"u1", "u2">> }

\* What a fetch and the parse of its body may end in.
Outcomes == {"ok", "http", "network", "parse"}

\* ------------------------------------------------------------ small helpers
RECURSIVE GCD(_, _)
GCD(a, b) == IF b = 0 THEN a ELSE GCD(b, a % b)

\* A JavaScript number that is a ratio, or NaN.
Ratio(n, d) ==
  IF n = 0 THEN [nan |-> FALSE, num |-> 0, den |-> 1]
  ELSE LET g == GCD(n, d) IN [nan |-> FALSE, num |-> n \div g, den |-> d \div g]

NaN == [nan |-> TRUE, num |-> 0, den |-> 1]

\* (i / d) * 100 in JavaScript, for 0 <= i and 0 <= d: 0/0 is NaN.
PercentOf(i, d) == IF d = 0 THEN NaN ELSE Ratio(i * 100, d)

\* A CSS length of an element's style: unset, or a percentage.
Unset == [set |-> FALSE, num |-> 0, den |-> 1]
Percent(n, d) == [set |-> TRUE, num |-> n, den |-> d]

\* el.style.prop = `${v}%`: "NaN%" is no CSS value and the assignment is ignored.
SetStyle(old, v) == IF v.nan THEN old ELSE Percent(v.num, v.den)

SeqToSet(s) == { s[k] : k \in DOMAIN s }

\* ------------------------------------------------------------- the state
Cur ==
  [availableTasks |-> availableTasks, taskData |-> taskData,
   currentTaskId |-> currentTaskId, currentTrajectoryId |-> currentTrajectoryId,
   currentStepIndex |-> currentStepIndex, isPlaying |-> isPlaying,
   playInterval |-> playInterval, container |-> container,
   taskOptions |-> taskOptions, taskValue |-> taskValue,
   trajOptions |-> trajOptions, trajValue |-> trajValue,
   stepText |-> stepText, totalText |-> totalText, panel |-> panel,
   prevDisabled |-> prevDisabled, nextDisabled |-> nextDisabled, icon |-> icon,
   timers |-> timers, inflight |-> inflight, pc |-> pc,
   indexStatus |-> indexStatus,
   indexFetches |-> indexFetches, requested |-> requested,
   refetched |-> refetched, divZero |-> divZero]

Set(S) ==
  /\ availableTasks' = S.availableTasks
  /\ taskData' = S.taskData
  /\ currentTaskId' = S.currentTaskId
  /\ currentTrajectoryId' = S.currentTrajectoryId
  /\ currentStepIndex' = S.currentStepIndex
  /\ isPlaying' = S.isPlaying
  /\ playInterval' = S.playInterval
  /\ container' = S.container
  /\ taskOptions' = S.taskOptions
  /\ taskValue' = S.taskValue
  /\ trajOptions' = S.trajOptions
  /\ trajValue' = S.trajValue
  /\ stepText' = S.stepText
  /\ totalText' = S.totalText
  /\ panel' = S.panel
  /\ prevDisabled' = S.prevDisabled
  /\ nextDisabled' = S.nextDisabled
  /\ icon' = S.icon
  /\ timers' = S.timers
  /\ inflight' = S.inflight
  /\ pc' = S.pc
  /\ indexStatus' = S.indexStatus
  /\ indexFetches' = S.indexFetches
  /\ requested' = S.requested
  /\ refetched' = S.refetched
  /\ divZero' = S.divZero
  /\ UNCHANGED <<dvVars, ccVars>>

\* The trajectories of the current task that carry the current trajectory id:
\* taskData[currentTaskId]?.trajectories[currentTrajectoryId].
Selected(S) ==
  IF S.currentTaskId = "" \/ S.currentTrajectoryId = "" THEN {}
  ELSE IF S.currentTaskId \notin DOMAIN S.taskData THEN {}
  ELSE { tr \in SeqToSet(S.taskData[S.currentTaskId].trajectories) :
           tr.id = S.currentTrajectoryId }

HasTrajectory(S) == Selected(S) # {}

\* trajectory.steps.length of the selected trajectory.
TotalSteps(S) == (CHOOSE tr \in Selected(S) : TRUE).steps

\* ------------------------------------------------------------- the display
NoMessage == <<"", "">>

Loading == [kind |-> "loading", msg |-> NoMessage, bar |-> FALSE, width |-> Unset, steps |-> << >>]

ErrorBox(m) == [kind |-> "error", msg |-> m, bar |-> FALSE, width |-> Unset, steps |-> << >>]

showErrorMessage(S, message) == [S EXCEPT !.container = ErrorBox(message)]

showLoading(S) == [S EXCEPT !.container = Loading]

\* The class of marker `index` once step `stepIndex` is shown.
\* The marker of the current step counted among the completed ones.
MarkerClassInclusive(index, stepIndex) ==
  IF index <= stepIndex THEN "timeline-step completed"
  ELSE "timeline-step"

MarkerClass(index, stepIndex) ==
  IF index < stepIndex THEN "timeline-step completed"
  ELSE IF index = stepIndex THEN "timeline-step active"
  ELSE "timeline-step"

\* A bound check of the lower end only.
OutOfRangeBelow(stepIndex, totalSteps) == stepIndex < 0

\* A bound check off by one: the index totalSteps passes.
OutOfRangeOffByOne(stepIndex, totalSteps) == stepIndex < 0 \/ stepIndex > totalSteps

OutOfRange(stepIndex, totalSteps) == stepIndex < 0 \/ stepIndex >= totalSteps

navigateToStep(S, stepIndex) ==
  IF ~HasTrajectory(S) THEN S
  ELSE
    LET totalSteps == TotalSteps(S)
        c == S.container
    IN IF OutOfRange(stepIndex, totalSteps) THEN S
       ELSE [S EXCEPT
               !.currentStepIndex = stepIndex,
               !.stepText = stepIndex + 1,
               !.container =
                  [c EXCEPT
                     !.steps = [k \in DOMAIN c.steps |->
                                  [c.steps[k] EXCEPT !.cls = MarkerClass(k - 1, stepIndex)]],
                     !.width = IF c.bar
                               THEN SetStyle(c.width, PercentOf(stepIndex, totalSteps - 1))
                               ELSE c.width],
               !.divZero = S.divZero \/ (c.bar /\ totalSteps - 1 = 0),
               !.panel = [task |-> S.currentTaskId, traj |-> S.currentTrajectoryId,
                          step |-> stepIndex],
               !.prevDisabled = (stepIndex = 0),
               !.nextDisabled = (stepIndex = totalSteps - 1)]

\* The left of marker i of a timeline of totalSteps markers.
MarkerLeft(i, totalSteps) == SetStyle(Unset, PercentOf(i, totalSteps - 1))

initializeTimeline(S) ==
  IF ~HasTrajectory(S) THEN S
  ELSE
    LET totalSteps == TotalSteps(S)
        built == [S EXCEPT
                    !.container =
                       [kind |-> "timeline", msg |-> NoMessage, bar |-> TRUE,
                        width |-> Percent(0, 1),
                        steps |-> [k \in 1..totalSteps |->
                                     [left |-> MarkerLeft(k - 1, totalSteps),
                                      cls |-> "timeline-step"]]],
                    !.divZero = S.divZero \/ (totalSteps >= 1 /\ totalSteps - 1 = 0),
                    !.stepText = 1,
                    !.totalText = totalSteps]
    IN navigateToStep(built, 0)

\* ------------------------------------------------------------ the autoplay
\* clearInterval(handle): the timer, if still active, is removed.
clearInterval(ts, handle) == [k \in DOMAIN ts \ {handle} |-> ts[k]]

\* The handle window.setInterval returns: one no active timer has.
FreeHandles(ts) == (1..MaxTimers) \ DOMAIN ts
NewHandle(ts) == CHOOSE h \in FreeHandles(ts) : \A g \in FreeHandles(ts) : h <= g

\* A pause that drops the handle without cancelling the timer.
stopPlaybackNoClear(S) ==
  [S EXCEPT !.playInterval = 0, !.icon = "play", !.isPlaying = FALSE]

\* The pause branch, and the auto-stop of the timer's callback.
stopPlayback(S) ==
  [S EXCEPT !.timers = IF S.playInterval # 0 THEN clearInterval(S.timers, S.playInterval)
                       ELSE S.timers,
            !.playInterval = 0,
            !.icon = "play",
            !.isPlaying = FALSE]

\* The play branch: the callback closes over the trajectory selected now.
startPlayback(S) ==
  LET h == NewHandle(S.timers)
  IN [S EXCEPT !.timers = [k \in DOMAIN S.timers \cup {h} |->
                             IF k = h THEN [steps |-> TotalSteps(S)] ELSE S.timers[k]],
               !.playInterval = h,
               !.icon = "pause",
               !.isPlaying = TRUE]

playTrajectory(S) ==
  IF ~HasTrajectory(S) THEN S
  ELSE IF S.isPlaying THEN stopPlayback(S)
  ELSE startPlayback(S)

\* A callback that starts over at the last step instead of stopping.
timerCallbackWrap(S, h) ==
  IF S.currentStepIndex < S.timers[h].steps - 1
  THEN navigateToStep(S, S.currentStepIndex + 1)
  ELSE navigateToStep(S, 0)

\* The callback of timer h, run at each of its ticks.
timerCallback(S, h) ==
  IF S.currentStepIndex < S.timers[h].steps - 1
  THEN navigateToStep(S, S.currentStepIndex + 1)
  ELSE stopPlayback(S)

\* ---------------------------------------------------------------- loading
IndexError == <<"Failed to load tasks", "">>
DataError(taskId) == <<"Failed to load data for", taskId>>

\* loadTaskData up to its first await: the fetch is issued, or the task is
\* unknown and the catch block shows the error.
loadTaskDataCall(S, taskId) ==
  LET L == showLoading(S)
      found == { k \in DOMAIN S.availableTasks : S.availableTasks[k].id = taskId }
  IN IF found = {} THEN showErrorMessage(L, DataError(taskId))
     ELSE LET taskInfo == S.availableTasks[CHOOSE k \in found : \A j \in found : k <= j]
          IN [L EXCEPT !.inflight = [S.inflight EXCEPT ![taskId] = @ + 1],
                       !.requested = S.requested \cup {taskInfo.dataFile},
                       !.refetched = IF taskId \in DOMAIN S.taskData
                                     THEN S.refetched \cup {taskId}
                                     ELSE S.refetched]

\* The rest of loadTaskData once the response of its fetch is in and parsed.
loadTaskDataApply(S, taskId, data) ==
  LET ids == [k \in DOMAIN data.trajectories |-> data.trajectories[k].id]
      stored == [S EXCEPT
                   !.taskData = [t \in DOMAIN S.taskData \cup {taskId} |->
                                   IF t = taskId THEN data ELSE S.taskData[t]],
                   !.currentTaskId = taskId,
                   !.trajOptions = ids,
                   !.trajValue = IF Len(ids) > 0 THEN ids[1] ELSE ""]
  IN IF Len(ids) > 0
     THEN initializeTimeline([stored EXCEPT !.currentTrajectoryId = ids[1]])
     ELSE stored

\* A load that has made the task current before its response was checked.
loadTaskDataFailSwitched(S, taskId) ==
  showErrorMessage([S EXCEPT !.currentTaskId = taskId], DataError(taskId))

loadTaskDataFail(S, taskId) == showErrorMessage(S, DataError(taskId))

\* A response that is displayed only if its task is still the selected one.
loadTaskDataResolveSelected(S, taskId, outcome) ==
  LET R == [S EXCEPT !.inflight = [S.inflight EXCEPT ![taskId] = @ - 1]]
      data == ServerData(taskId)
  IN IF outcome # "ok" THEN loadTaskDataFail(R, taskId)
     ELSE IF taskId = S.taskValue THEN loadTaskDataApply(R, taskId, data)
     ELSE [R EXCEPT !.taskData = [t \in DOMAIN S.taskData \cup {taskId} |->
                                    IF t = taskId THEN data ELSE S.taskData[t]]]

loadTaskDataResolve(S, taskId, outcome) ==
  LET R == [S EXCEPT !.inflight = [S.inflight EXCEPT ![taskId] = @ - 1]]
  IN IF outcome = "ok" THEN loadTaskDataApply(R, taskId, ServerData(taskId))
     ELSE loadTaskDataFail(R, taskId)

\* A catch block that fetches the index once more.
loadTaskIndexFailRetry(S) ==
  [showErrorMessage(S, IndexError) EXCEPT !.indexFetches = @ + 1]

\* The catch block of loadTaskIndex.
loadTaskIndexFail(S) == showErrorMessage(S, IndexError)

\* loadTaskIndex after a successful fetch, up to the await of the first load.
loadTaskIndexApply(S, tasks) ==
  LET filled == [S EXCEPT !.availableTasks = [k \in DOMAIN tasks |-> Task(tasks[k])],
                          !.taskOptions = tasks,
                          !.taskValue = IF Len(tasks) > 0 THEN tasks[1] ELSE ""]
  IN IF Len(tasks) > 0 THEN loadTaskDataCall(filled, tasks[1]) ELSE filled

\* init() goes on to initializeControls once loadTaskIndex has returned.
InitStage(S) == IF \E t \in TaskIds : S.inflight[t] > 0 THEN "first" ELSE "ready"

loadTaskIndexResolve(S, outcome, tasks) ==
  LET R == IF outcome = "ok" THEN loadTaskIndexApply(S, tasks) ELSE loadTaskIndexFail(S)
  IN [R EXCEPT !.pc = InitStage(R),
               !.indexStatus = IF outcome = "ok" THEN "ok" ELSE "fail"]

\* --------------------------------------------------------------- controls
prevClick(S) ==
  IF S.currentStepIndex > 0 THEN navigateToStep(S, S.currentStepIndex - 1) ELSE S

nextClick(S) ==
  IF ~HasTrajectory(S) THEN S
  ELSE IF S.currentStepIndex < TotalSteps(S) - 1
       THEN navigateToStep(S, S.currentStepIndex + 1)
       ELSE S

taskSelectChange(S, value) == loadTaskDataCall([S EXCEPT !.taskValue = value], value)

trajectorySelectChange(S, value) ==
  initializeTimeline([S EXCEPT !.trajValue = value, !.currentTrajectoryId = value])

\* ------------------------------------------------------- the state machine
NoPanel == [task |-> "", traj |-> "", step |-> 0]
NoRun == [active |-> FALSE, start |-> 0, ticks |-> 0, steps |-> 0]
\* A handler that ran: its name, the task or trajectory and the step index it was
\* given, and the step index that was current when it started.
Event(op, task, step) ==
  [op |-> op, task |-> task, step |-> step, was |-> currentStepIndex]

\* initTrajectoryViewer() has run: init() stands at the fetch of the index.
TVInit ==
  /\ availableTasks = << >>
  /\ taskData = << >>
  /\ currentTaskId = ""
  /\ currentTrajectoryId = ""
  /\ currentStepIndex = 0
  /\ isPlaying = FALSE
  /\ playInterval = 0
  /\ container = Loading
  /\ taskOptions \in MarkupTaskOptions
  /\ taskValue = IF Len(taskOptions) > 0 THEN taskOptions[1] ELSE ""
  /\ trajOptions = << >>
  /\ trajValue = ""
  /\ stepText = 0
  /\ totalText = 0
  /\ panel = NoPanel
  /\ prevDisabled = FALSE
  /\ nextDisabled = FALSE
  /\ icon = "play"
  /\ timers = << >>
  /\ inflight = [t \in TaskIds |-> 0]
  /\ pc = "index"
  /\ indexStatus = "pending"
  /\ indexFetches = 1
  /\ requested = {}
  /\ refetched = {}
  /\ divZero = FALSE
  /\ last = Event("init", "", 0)
  /\ raced = ""
  /\ run = NoRun

InFlight == LET RECURSIVE Sum(_)
                Sum(T) == IF T = {} THEN 0
                          ELSE LET t == CHOOSE x \in T : TRUE
                               IN inflight[t] + Sum(T \ {t})
            IN Sum(TaskIds)

\* The response of the index fetch arrives (or the fetch fails).
IndexResponse ==
  /\ pc = "index"
  /\ \E outcome \in Outcomes, tasks \in IndexFiles :
       /\ Set(loadTaskIndexResolve(Cur, outcome, tasks))
       /\ last' = Event(IF outcome = "ok" THEN "indexOk" ELSE "indexFail", "", 0)
  /\ run' = NoRun
  /\ UNCHANGED raced

\* The response of a task-data fetch arrives (or the fetch fails).
TaskDataResponse ==
  \E t \in TaskIds, outcome \in Outcomes :
    /\ inflight[t] > 0
    /\ LET R == loadTaskDataResolve(Cur, t, outcome)
       IN Set([R EXCEPT !.pc = IF pc = "first" THEN "ready" ELSE pc])
    /\ last' = Event(IF outcome = "ok" THEN "dataOk" ELSE "dataFail", t, 0)
    /\ run' = IF outcome = "ok" THEN NoRun ELSE run
    /\ raced' = IF outcome = "ok" /\ InFlight > 1 THEN t ELSE raced

PrevClick ==
  /\ pc = "ready"
  /\ ~prevDisabled
  /\ Set(prevClick(Cur))
  /\ last' = Event("prev", "", 0)
  /\ run' = NoRun
  /\ UNCHANGED raced

NextClick ==
  /\ pc = "ready"
  /\ ~nextDisabled
  /\ Set(nextClick(Cur))
  /\ last' = Event("next", "", 0)
  /\ run' = NoRun
  /\ UNCHANGED raced

MarkerClick ==
  \E k \in DOMAIN container.steps :
    /\ Set(navigateToStep(Cur, k - 1))
    /\ last' = Event("marker", "", k - 1)
    /\ run' = NoRun
    /\ UNCHANGED raced

PlayPauseClick ==
  /\ pc = "ready"
  /\ (HasTrajectory(Cur) /\ ~isPlaying) => FreeHandles(timers) # {}
  /\ Set(playTrajectory(Cur))
  /\ last' = Event("playPause", "", 0)
  /\ run' = IF HasTrajectory(Cur) /\ ~isPlaying
            THEN [active |-> TRUE, start |-> currentStepIndex, ticks |-> 0,
                  steps |-> TotalSteps(Cur)]
            ELSE NoRun
  /\ UNCHANGED raced

TaskSelectChange ==
  /\ pc = "ready"
  /\ InFlight < MaxInFlight
  /\ \E value \in SeqToSet(taskOptions) \ {taskValue} :
       /\ Set(taskSelectChange(Cur, value))
       /\ last' = Event("taskSelect", value, 0)
  /\ run' = NoRun
  /\ raced' = ""

TrajectorySelectChange ==
  /\ pc = "ready"
  /\ \E value \in SeqToSet(trajOptions) \ {trajValue} :
       /\ Set(trajectorySelectChange(Cur, value))
       /\ last' = Event("trajectorySelect", value, 0)
  /\ run' = NoRun
  /\ UNCHANGED raced

TimerTick ==
  \E h \in DOMAIN timers :
    /\ Set(timerCallback(Cur, h))
    /\ last' = Event("tick", "", IF currentStepIndex < timers[h].steps - 1
                                  THEN currentStepIndex + 1 ELSE -1)
    /\ run' = IF run.active THEN [run EXCEPT !.ticks = @ + 1] ELSE run
    /\ UNCHANGED raced

\* No trajectory viewer on the page: initTrajectoryViewer() returns at once.
TVAbsent ==
  /\ availableTasks = << >>
  /\ taskData = << >>
  /\ currentTaskId = ""
  /\ currentTrajectoryId = ""
  /\ currentStepIndex = 0
  /\ isPlaying = FALSE
  /\ playInterval = 0
  /\ container = Loading
  /\ taskOptions = << >>
  /\ taskValue = ""
  /\ trajOptions = << >>
  /\ trajValue = ""
  /\ stepText = 0
  /\ totalText = 0
  /\ panel = NoPanel
  /\ prevDisabled = FALSE
  /\ nextDisabled = FALSE
  /\ icon = "play"
  /\ timers = << >>
  /\ inflight = [t \in TaskIds |-> 0]
  /\ pc = "none"
  /\ indexStatus = "pending"
  /\ indexFetches = 0
  /\ requested = {}
  /\ refetched = {}
  /\ divZero = FALSE
  /\ last = Event("none", "", 0)
  /\ raced = ""
  /\ run = NoRun

Next ==
  \/ IndexResponse
  \/ TaskDataResponse
  \/ PrevClick
  \/ NextClick
  \/ MarkerClick
  \/ PlayPauseClick
  \/ TaskSelectChange
  \/ TrajectorySelectChange
  \/ TimerTick

\* ---------------------------------------------------- the dataset viewer
\* Strings are sequences of UTF-16 code units.
EmptyStr == << >>
NameA == <<97>>
NameAB == <<97, 98>>
NameB == <<98>>

\* a < b as JavaScript compares strings: by code unit, a proper prefix first.
RECURSIVE StrLess(_, _)
StrLess(a, b) ==
  IF b = << >> THEN FALSE
  ELSE IF a = << >> THEN TRUE
  ELSE IF Head(a) # Head(b) THEN Head(a) < Head(b)
  ELSE StrLess(Tail(a), Tail(b))

\* One parsed line: { layout_type, images }, either of which may be missing.
Sample(hasType, layout, n) == [hasType |-> hasType, layout_type |-> layout, images |-> n]

\* The lines a document is made of: blank, not JSON, or a sample.
Line(kind, obj) == [kind |-> kind, obj |-> obj]
BlankLine == Line("blank", Sample(FALSE, EmptyStr, 0))
BadLine == Line("bad", Sample(FALSE, EmptyStr, 0))
SampleLines ==
  { Line("json", o) :
      o \in { Sample(TRUE, NameA, 1), Sample(TRUE, NameA, 2), Sample(TRUE, NameAB, 3),
              Sample(TRUE, NameB, 4), Sample(TRUE, NameB, 5), Sample(TRUE, EmptyStr, 2),
              Sample(FALSE, EmptyStr, 0) } }
Lines == SampleLines \cup {BlankLine, BadLine}

\* Lines of the longest document.
MaxLines == 3

Documents == UNION { [1..n -> Lines] : n \in 0..MaxLines }

\* What the fetch may bring: a rejection, or a response with a status and a body.
Inputs ==
  { [net |-> "fail", status |-> 0, lines |-> << >>] }
  \cup { [net |-> "ok", status |-> st, lines |-> d] : st \in {200, 404}, d \in Documents }

\* loadData: the non-blank lines, each parsed; one bad line fails the whole load.
IsContent(l) == l.kind # "blank"
ParseJSONL(lines) ==
  LET kept == SelectSeq(lines, IsContent)
  IN IF \E k \in DOMAIN kept : kept[k].kind = "bad"
     THEN [ok |-> FALSE, data |-> << >>]
     ELSE [ok |-> TRUE, data |-> [k \in DOMAIN kept |-> kept[k].obj]]

loadData(inp) ==
  IF inp.net = "fail" THEN [ok |-> FALSE, data |-> << >>] ELSE ParseJSONL(inp.lines)

\* if (item.layout_type)
HasLayoutType(item) == item.hasType /\ item.layout_type # EmptyStr

\* new Set() filled in input order: each value once, at its first place.
RECURSIVE Distinct(_)
Distinct(q) ==
  IF q = << >> THEN << >>
  ELSE LET front == Distinct(SubSeq(q, 1, Len(q) - 1))
           x == q[Len(q)]
       IN IF x \in SeqToSet(front) THEN front ELSE Append(front, x)

\* Array.prototype.sort() without a comparator: ascending by code unit.
RECURSIVE Insert(_, _)
Insert(q, x) ==
  IF q = << >> THEN <<x>>
  ELSE IF StrLess(x, Head(q)) THEN <<x>> \o q
  ELSE <<Head(q)>> \o Insert(Tail(q), x)

\* A sort left out: the layouts stay in input order.
Unsorted(q) == q

RECURSIVE Sort(_)
Sort(q) == IF q = << >> THEN << >> ELSE Insert(Sort(Tail(q)), Head(q))

DV ==
  [allData |-> allData, filteredData |-> filteredData, currentIndex |-> currentIndex,
   currentLayout |-> currentLayout, availableLayouts |-> availableLayouts,
   selectOptions |-> selectOptions, selectValue |-> selectValue, display |-> display]

SetDV(D) ==
  /\ allData' = D.allData
  /\ filteredData' = D.filteredData
  /\ currentIndex' = D.currentIndex
  /\ currentLayout' = D.currentLayout
  /\ availableLayouts' = D.availableLayouts
  /\ selectOptions' = D.selectOptions
  /\ selectValue' = D.selectValue
  /\ display' = D.display
  /\ UNCHANGED <<tvVars, ccVars>>

\* select.value = v: the option of that value, or none ('').
SelectValue(options, v) == IF v \in SeqToSet(options) THEN v ELSE EmptyStr

updateFilterSelectors(D) ==
  [D EXCEPT !.selectOptions = D.availableLayouts,
            !.selectValue = SelectValue(D.availableLayouts, D.currentLayout)]

HasLayoutTypes(items) == SelectSeq(items, HasLayoutType)

populateFilterOptions(D) ==
  LET typed == HasLayoutTypes(D.allData)
      layouts == Distinct([k \in DOMAIN typed |-> typed[k].layout_type])
      sorted == Sort(layouts)
      chosen == IF Len(sorted) > 0 /\ D.currentLayout = EmptyStr
                THEN sorted[1] ELSE D.currentLayout
  IN updateFilterSelectors([D EXCEPT !.availableLayouts = sorted,
                                     !.currentLayout = chosen])

filterData(D) ==
  IF D.currentLayout = EmptyStr THEN [D EXCEPT !.filteredData = << >>]
  ELSE LET Matches(item) == item.hasType /\ item.layout_type = D.currentLayout
       IN [D EXCEPT !.filteredData = SelectSeq(D.allData, Matches),
                    !.currentIndex = 0]

updateFilterUI(D) ==
  [D EXCEPT !.selectValue = SelectValue(D.selectOptions, D.currentLayout)]

\* Three columns already at two images.
GridClassFromTwo(numImages) ==
  IF numImages < 2 THEN "images-grid-2col"
  ELSE IF numImages <= 3 THEN "images-grid-3col"
  ELSE "images-grid-4col"

\* The class of the grid of numImages images.
GridClass(numImages) ==
  IF numImages <= 2 THEN "images-grid-2col"
  ELSE IF numImages = 3 THEN "images-grid-3col"
  ELSE "images-grid-4col"

Blank == [kind |-> "blank", layout |-> EmptyStr, images |-> 0, grid |-> ""]
NoDataHTML == [kind |-> "nodata", layout |-> EmptyStr, images |-> 0, grid |-> ""]
ErrorHTML == [kind |-> "error", layout |-> EmptyStr, images |-> 0, grid |-> ""]

\* getElementById('data-display') is null: the page has no such element.
NoDisplay == [kind |-> "absent", layout |-> EmptyStr, images |-> 0, grid |-> ""]

getSampleHTML(data) ==
  [kind |-> "sample", layout |-> data.layout_type, images |-> data.images,
   grid |-> GridClass(data.images)]

\* The last of the matching samples rendered instead of the first.
updateUILast(D) ==
  IF D.display = NoDisplay THEN D
  ELSE IF Len(D.filteredData) = 0 THEN [D EXCEPT !.display = NoDataHTML]
  ELSE [D EXCEPT !.display = getSampleHTML(D.filteredData[Len(D.filteredData)])]

updateUI(D) ==
  IF D.display = NoDisplay THEN D
  ELSE IF Len(D.filteredData) = 0 THEN [D EXCEPT !.display = NoDataHTML]
  ELSE [D EXCEPT !.display = getSampleHTML(D.filteredData[1])]

\* dataDisplay.innerHTML = ... with no test of dataDisplay: a TypeError on null.
showErrorThrows(D) == D.display = NoDisplay

showError(D) == IF showErrorThrows(D) THEN D ELSE [D EXCEPT !.display = ErrorHTML]

\* indexOf: the first place of x in q, 0-based, or -1.
IndexOf(q, x) ==
  IF x \in SeqToSet(q)
  THEN (CHOOSE k \in DOMAIN q : q[k] = x /\ \A j \in DOMAIN q : q[j] = x => k <= j) - 1
  ELSE -1

\* A navigation that stops at the ends of the list instead of wrapping.
navigateLayoutClamped(D, direction) ==
  LET at == IndexOf(D.availableLayouts, D.currentLayout)
      n == Len(D.availableLayouts)
      moved == at + direction
      low == IF moved < 0 THEN 0 ELSE moved
      newIndex == IF low >= n THEN n - 1 ELSE low
  IN IF at = -1 THEN D
     ELSE updateUI(filterData(updateFilterUI(
            [D EXCEPT !.currentLayout = D.availableLayouts[newIndex + 1]])))

navigateLayout(D, direction) ==
  LET at == IndexOf(D.availableLayouts, D.currentLayout)
      n == Len(D.availableLayouts)
      moved == at + direction
      wrappedLow == IF moved < 0 THEN n - 1 ELSE moved
      newIndex == IF wrappedLow >= n THEN 0 ELSE wrappedLow
  IN IF at = -1 THEN D
     ELSE updateUI(filterData(updateFilterUI(
            [D EXCEPT !.currentLayout = D.availableLayouts[newIndex + 1]])))

layoutSelectChange(D, value) ==
  updateUI(filterData([D EXCEPT !.selectValue = value, !.currentLayout = value]))

\* init() once the fetch has settled.
initResolve(D, inp) ==
  LET loaded == loadData(inp)
  IN IF loaded.ok
     THEN updateUI(updateFilterUI(filterData(
            populateFilterOptions([D EXCEPT !.allData = loaded.data]))))
     ELSE showError(D)

\* The keys and the focused elements a keydown may come with.
Keys == {"ArrowLeft", "ArrowRight", "Enter"}
TagNames == {"BODY", "INPUT", "SELECT", "TEXTAREA"}

keydown(D, tagName, key) ==
  IF tagName = "INPUT" \/ tagName = "SELECT" THEN D
  ELSE IF key = "ArrowLeft" THEN navigateLayout(D, -1)
  ELSE IF key = "ArrowRight" THEN navigateLayout(D, 1)
  ELSE D

\* A handler that ran: its name, the direction it navigated in (0: none), the
\* element and key of a keydown, and the layout that was selected when it started.
DVEvent(op, arg, tagName, key) ==
  [op |-> op, arg |-> arg, tag |-> tagName, key |-> key, from |-> currentLayout]

\* No dataset viewer on the page.
DVAbsent ==
  /\ input = [net |-> "fail", status |-> 0, lines |-> << >>]
  /\ allData = << >>
  /\ filteredData = << >>
  /\ currentIndex = 0
  /\ currentLayout = EmptyStr
  /\ availableLayouts = << >>
  /\ selectOptions = << >>
  /\ selectValue = EmptyStr
  /\ display = Blank
  /\ dvPc = "none"
  /\ dvLast = DVEvent("none", 0, "", "")

\* new DatasetViewer() has run: init() stands at the fetch.
DVInit ==
  /\ input \in Inputs
  /\ allData = << >>
  /\ filteredData = << >>
  /\ currentIndex = 0
  /\ currentLayout = EmptyStr
  /\ availableLayouts = << >>
  /\ selectOptions = << >>
  /\ selectValue = EmptyStr
  /\ display \in {Blank, NoDisplay}
  /\ dvPc = "fetch"
  /\ dvLast = DVEvent("new", 0, "", "")

\* The fetch settles and init() runs to its end: the viewer is ready, or shows
\* the error, or the promise of init() is rejected with nothing to catch it.
DVLoad ==
  /\ dvPc = "fetch"
  /\ SetDV(initResolve(DV, input))
  /\ dvPc' = IF loadData(input).ok THEN "ready"
             ELSE IF showErrorThrows(DV) THEN "uncaught"
             ELSE "error"
  /\ dvLast' = DVEvent("load", 0, "", "")
  /\ UNCHANGED input

DVSelectChange ==
  /\ dvPc = "ready"
  /\ \E value \in SeqToSet(selectOptions) \ {selectValue} :
       SetDV(layoutSelectChange(DV, value))
  /\ dvLast' = DVEvent("select", 0, "", "")
  /\ UNCHANGED <<input, dvPc>>

DVPrevClick ==
  /\ dvPc = "ready"
  /\ SetDV(navigateLayout(DV, -1))
  /\ dvLast' = DVEvent("prev", -1, "", "")
  /\ UNCHANGED <<input, dvPc>>

DVNextClick ==
  /\ dvPc = "ready"
  /\ SetDV(navigateLayout(DV, 1))
  /\ dvLast' = DVEvent("next", 1, "", "")
  /\ UNCHANGED <<input, dvPc>>

DVKeyDown ==
  /\ dvPc = "ready"
  /\ \E tagName \in TagNames, key \in Keys :
       /\ SetDV(keydown(DV, tagName, key))
       /\ dvLast' = DVEvent("keydown", 0, tagName, key)
  /\ UNCHANGED <<input, dvPc>>

NextDV ==
  \/ DVLoad
  \/ DVSelectChange
  \/ DVPrevClick
  \/ DVNextClick
  \/ DVKeyDown

\* ------------------------------------------------------ the citation copy
\* The delay of both setTimeout calls, in milliseconds.
FeedbackMs == 2000

\* The clock is watched at every half of that delay.
ClockStep == FeedbackMs \div 2

\* codeElement.textContent || ''
CitationText == "citation"

\* setTimeout(() => copyButton.classList.remove(cls), 2000)
setTimeout(pending, cls) == pending \cup {[due |-> clock + FeedbackMs, cls |-> cls]}

\* The page has no copy button or no citation block: no listener is attached.
CCAbsent ==
  /\ listening = FALSE
  /\ classes = {}
  /\ timeouts = {}
  /\ writes = 0
  /\ clipboard = ""
  /\ clock = 0
  /\ copiedAt = -1
  /\ ccLast = "none"

\* initCitationCopy() has found both elements and attached the listener.
CCInit ==
  /\ listening = TRUE
  /\ classes = {}
  /\ timeouts = {}
  /\ writes = 0
  /\ clipboard = ""
  /\ clock = 0
  /\ copiedAt = -1
  /\ ccLast = "init"

\* A click: the handler runs up to its await.
CCClick ==
  /\ listening
  /\ writes < MaxWrites
  /\ writes' = writes + 1
  /\ ccLast' = "click"
  /\ UNCHANGED <<listening, classes, timeouts, clipboard, clock, copiedAt>>
  /\ UNCHANGED <<tvVars, dvVars>>

\* writeText is fulfilled: the rest of the try block runs.
CCWriteFulfilled ==
  /\ writes > 0
  /\ writes' = writes - 1
  /\ clipboard' = CitationText
  /\ classes' = classes \cup {"copied"}
  /\ timeouts' = setTimeout(timeouts, "copied")
  /\ copiedAt' = clock
  /\ ccLast' = "copied"
  /\ UNCHANGED <<listening, clock>>
  /\ UNCHANGED <<tvVars, dvVars>>

\* writeText is rejected: the catch block runs.
CCWriteRejected ==
  /\ writes > 0
  /\ writes' = writes - 1
  /\ classes' = classes \cup {"copy-error"}
  /\ timeouts' = setTimeout(timeouts, "copy-error")
  /\ ccLast' = "copy-error"
  /\ UNCHANGED <<listening, clipboard, clock, copiedAt>>
  /\ UNCHANGED <<tvVars, dvVars>>

\* A timeout that is due runs its callback.
CCTimeout ==
  /\ \E t \in timeouts :
       /\ t.due <= clock
       /\ classes' = classes \ {t.cls}
       /\ timeouts' = timeouts \ {t}
  /\ ccLast' = "timeout"
  /\ UNCHANGED <<listening, writes, clipboard, clock, copiedAt>>
  /\ UNCHANGED <<tvVars, dvVars>>

\* Time passes, once every timeout that was due has run.
CCTime ==
  /\ clock < MaxClock * ClockStep
  /\ \A t \in timeouts : t.due > clock
  /\ clock' = clock + ClockStep
  /\ ccLast' = "time"
  /\ UNCHANGED <<listening, classes, timeouts, writes, clipboard, copiedAt>>
  /\ UNCHANGED <<tvVars, dvVars>>

NextCC ==
  \/ CCClick
  \/ CCWriteFulfilled
  \/ CCWriteRejected
  \/ CCTimeout
  \/ CCTime

\* ------------------------------------------------------ the specifications
vars == <<tvVars, dvVars, ccVars>>

\* The page of the trajectory viewer.
Init == TVInit /\ DVAbsent /\ CCAbsent
Spec == Init /\ [][Next]_vars

\* The page of the dataset viewer.
InitDV == DVInit /\ TVAbsent /\ CCAbsent
SpecDV == InitDV /\ [][NextDV]_vars

\* The page of the citation.
InitCC == CCInit /\ TVAbsent /\ DVAbsent
SpecCC == InitCC /\ [][NextCC]_vars

\* ------------------------------------------------------------ the claims
\* C1: when the selected task or the selected trajectory has changed (a task's
\* data has been applied, or the trajectory selector has changed), playback is
\* stopped: isPlaying is false and no autoplay timer is left.
C1_SwitchStopsPlayback ==
  last.op \in {"dataOk", "trajectorySelect"} => (~isPlaying /\ DOMAIN timers = {})

\* C2: no fetch is ever issued for the data file of a task whose data is already
\* in the taskData cache.
C2_NoRefetchOfCachedTask == refetched = {}

\* C3: a playback started at step s of a trajectory of N steps (s < N) and left
\* alone since (only timer ticks and failed responses followed) stands, after k
\* ticks, at step s + k and is playing while k <= N - 1 - s, and from tick
\* N - s on is paused at step N - 1: one step per tick, never back, never to 0
\* again, and no step at all when s = N - 1.
C3_PlaybackAdvancesThenStops ==
  (run.active /\ run.start < run.steps) =>
     IF run.ticks <= run.steps - 1 - run.start
     THEN /\ isPlaying
          /\ currentStepIndex = run.start + run.ticks
     ELSE /\ ~isPlaying
          /\ DOMAIN timers = {}
          /\ run.ticks = run.steps - run.start
          /\ currentStepIndex = run.steps - 1

\* A playback from step 0 of the longest trajectory has run to its end.
C3_Witness ==
  /\ run.active
  /\ run.start = 0
  /\ run.steps = MaxSteps
  /\ run.ticks = MaxSteps
  /\ ~isPlaying
  /\ currentStepIndex = MaxSteps - 1

\* C4: a click on play/pause while isPlaying is true leaves isPlaying false and
\* no timer behind.
C4_PauseCancelsTimer ==
  [][(isPlaying /\ last'.op = "playPause") => (~isPlaying' /\ DOMAIN timers' = {})]_vars

\* C5: in every reachable state, navigateToStep(i) with i < 0 or i >= totalSteps
\* (or with no trajectory selected) returns the state it was given, and so does
\* navigateToStep(i) for i the current step index, once and twice.
C5_NavigateNoOpAndIdempotent ==
  LET S == Cur
  IN /\ \A i \in -2 .. (MaxSteps + 1) :
          (~HasTrajectory(S) \/ i < 0 \/ i >= TotalSteps(S)) => navigateToStep(S, i) = S
     /\ navigateToStep(S, S.currentStepIndex) = S
     /\ navigateToStep(navigateToStep(S, S.currentStepIndex), S.currentStepIndex) = S

\* A marker of the step that is current was clicked, on a timeline of several.
C5_Witness ==
  /\ last.op = "marker"
  /\ last.step = last.was
  /\ last.step > 0
  /\ HasTrajectory(Cur)
  /\ currentStepIndex = last.step

\* C6: the timeline of a one-step trajectory has its marker at 0% and its bar
\* at 0%, marker i of a longer one is at i/(N-1)*100%, and no division by zero
\* is ever evaluated.
C6_SingleStepTimelineGuarded ==
  /\ ~divZero
  /\ container.kind = "timeline" =>
       LET N == Len(container.steps)
       IN /\ N = 1 => (container.steps[1].left = Percent(0, 1)
                       /\ container.width = Percent(0, 1))
          /\ N > 1 => \A k \in 1..N :
                        LET r == Ratio((k - 1) * 100, N - 1)
                        IN container.steps[k].left = Percent(r.num, r.den)

\* C7: a loadTaskData call that fails (its fetch fails, the status is not 2xx,
\* the body does not parse, or the task id is unknown) leaves taskData,
\* currentTaskId, currentTrajectoryId and currentStepIndex as they were and
\* shows the error message of that task.
C7_FailedLoadKeepsState ==
  [][(\/ last'.op = "dataFail"
      \/ /\ last'.op = "taskSelect"
         /\ \A k \in DOMAIN availableTasks : availableTasks[k].id # last'.task)
     => /\ UNCHANGED <<taskData, currentTaskId, currentTrajectoryId, currentStepIndex>>
        /\ container' = ErrorBox(DataError(last'.task))]_vars

\* The load of a task failed while another load had filled the cache and a
\* later step than the first was shown.
C7_Witness ==
  /\ last.op = "dataFail"
  /\ DOMAIN taskData # {}
  /\ currentTaskId # last.task
  /\ currentStepIndex > 0

\* C8: once the index has loaded, the task selector holds one entry per task
\* and the data file of the first task has been requested; once it has failed,
\* the error message is shown at that moment, availableTasks stays empty, no
\* task-data fetch is ever issued and the index is not fetched again.
C8_IndexLoadOrHalt ==
  /\ indexStatus = "ok" =>
       /\ taskOptions = [k \in DOMAIN availableTasks |-> availableTasks[k].id]
       /\ availableTasks # << >> => availableTasks[1].dataFile \in requested
  /\ last.op = "indexFail" => container = ErrorBox(IndexError)
  /\ indexStatus = "fail" =>
       /\ availableTasks = << >>
       /\ requested = {}
       /\ InFlight = 0
       /\ indexFetches = 1

\* The index failed and the user then chose a task the markup offers.
C8_Witness ==
  /\ indexStatus = "fail"
  /\ last.op = "taskSelect"

\* C9: once an index of zero tasks has loaded and init has finished, the
\* container shows a state of its own, neither the error nor the loading one.
C9_EmptyIndexShowsNoData ==
  (indexStatus = "ok" /\ availableTasks = << >> /\ pc = "ready") =>
     container.kind \notin {"error", "loading"}

\* An input whose fetch succeeds and whose lines are all blank or JSON.
WellFormed(inp) ==
  /\ inp.net = "ok"
  /\ \A k \in DOMAIN inp.lines : inp.lines[k].kind # "bad"

\* The layout_type values the lines of the input carry.
LayoutTypesIn(inp) ==
  { inp.lines[k].obj.layout_type :
      k \in { j \in DOMAIN inp.lines :
                inp.lines[j].kind = "json" /\ inp.lines[j].obj.hasType } }

Ascending(q) == \A i, j \in DOMAIN q : i < j => StrLess(q[i], q[j])

\* C10 as stated: after the load of a well-formed input, availableLayouts (and
\* the selector's options) hold exactly the distinct layout_type values of the
\* input, ascending and without duplicates, and the load leaves the first of
\* them selected.
C10_LayoutsAreTheTypesPresent ==
  (dvPc # "fetch" /\ dvPc # "none" /\ WellFormed(input)) =>
     /\ dvPc = "ready"
     /\ SeqToSet(availableLayouts) = LayoutTypesIn(input)
     /\ Ascending(availableLayouts)
     /\ selectOptions = availableLayouts
     /\ (dvLast.op = "load" /\ availableLayouts # << >>) =>
           currentLayout = availableLayouts[1]

\* C10 as amended: the same, of the distinct non-empty layout_type values.
C10_LayoutsAreTheNonEmptyTypes ==
  (dvPc # "fetch" /\ dvPc # "none" /\ WellFormed(input)) =>
     /\ dvPc = "ready"
     /\ SeqToSet(availableLayouts) = LayoutTypesIn(input) \ {EmptyStr}
     /\ Ascending(availableLayouts)
     /\ selectOptions = availableLayouts
     /\ (dvLast.op = "load" /\ availableLayouts # << >>) =>
           /\ currentLayout = availableLayouts[1]
           /\ selectValue = availableLayouts[1]

\* An input that names its layouts out of order, and one of them the empty
\* string, has been loaded.
C10_Witness ==
  /\ dvPc = "ready"
  /\ dvLast.op = "load"
  /\ Len(availableLayouts) >= 2
  /\ input.lines[1].kind = "json"
  /\ input.lines[1].obj.layout_type = availableLayouts[Len(availableLayouts)]
  /\ EmptyStr \in LayoutTypesIn(input)

\* The samples of the input, in input order, whose layout_type is `layout`.
SamplesOf(inp, layout) ==
  LET OfLayout(l) == l.kind = "json" /\ l.obj.hasType /\ l.obj.layout_type = layout
      kept == SelectSeq(inp.lines, OfLayout)
  IN [k \in DOMAIN kept |-> kept[k].obj]

\* C11: a click on next (previous) moves the selection from place p of the
\* n sorted layouts to place p + 1 (p - 1) modulo n, so from the last to the
\* first and from the first to the last; after it the selected layout is one
\* of availableLayouts, the selector shows it, and filteredData holds exactly
\* the samples of the input of that layout, in input order.
C11_NavigateLayoutWraps ==
  [][(dvLast'.op \in {"prev", "next"} /\ availableLayouts # << >>) =>
       LET n == Len(availableLayouts)
           p == CHOOSE k \in 1..n : availableLayouts[k] = currentLayout
       IN /\ currentLayout \in SeqToSet(availableLayouts)
          /\ currentLayout' = availableLayouts[((p - 1 + dvLast'.arg) % n) + 1]
          /\ selectValue' = currentLayout'
          /\ filteredData' = SamplesOf(input, currentLayout')]_vars

\* Next was clicked on the last of three layouts and the first is selected.
C11_Witness ==
  /\ dvLast.op = "next"
  /\ Len(availableLayouts) = 3
  /\ dvLast.from = availableLayouts[3]
  /\ currentLayout = availableLayouts[1]
  /\ Len(filteredData) > 0

\* response.ok is false, the request failed, or a line is not JSON.
FailedLoad(inp) ==
  \/ inp.net = "fail"
  \/ inp.status \notin 200..299
  \/ \E k \in DOMAIN inp.lines : inp.lines[k].kind = "bad"

\* C12: once a load whose request failed, whose response has a non-success
\* status, or whose body has a malformed line has ended, the display (where the
\* page has one) shows the error, not 'no data' and not a sample, and no
\* exception has escaped init().
C12_FailedLoadShowsError ==
  (dvPc \notin {"none", "fetch"} /\ FailedLoad(input)) =>
     /\ dvPc # "uncaught"
     /\ display \in {ErrorHTML, NoDisplay}

\* The elements text is typed into, and the select control.
TextEntryOrSelect == {"INPUT", "TEXTAREA", "SELECT"}

\* C13: a keydown of the left (right) arrow does what navigateLayout(-1)
\* (navigateLayout(+1)) does when its target is no text-entry or select
\* control, and leaves the selected layout and the display as they were when
\* its target is one.
C13_ArrowKeysSpareFormControls ==
  [][(dvLast'.op = "keydown" /\ dvLast'.key \in {"ArrowLeft", "ArrowRight"}) =>
       LET direction == IF dvLast'.key = "ArrowLeft" THEN -1 ELSE 1
           after == IF dvLast'.tag \in TextEntryOrSelect THEN DV
                    ELSE navigateLayout(DV, direction)
       IN /\ currentLayout' = after.currentLayout
          /\ filteredData' = after.filteredData
          /\ display' = after.display]_vars

\* The sample the display renders, where it renders one: the first line of the
\* input of the selected layout.
Rendered(inp, layout) == SamplesOf(inp, layout)[1]

\* C14: the grid class of a rendered sample of n >= 1 images depends on n
\* alone: two columns for n = 1 and n = 2, three for n = 3, four for n >= 4.
C14_GridClassByImageCount ==
  (display.kind = "sample" /\ display.images >= 1) =>
     /\ display.images = Rendered(input, currentLayout).images
     /\ display.grid = CASE display.images \in {1, 2} -> "images-grid-2col"
                         [] display.images = 3 -> "images-grid-3col"
                         [] OTHER -> "images-grid-4col"

\* A sample of five images is on display, in four columns.
C14_Witness ==
  /\ display.kind = "sample"
  /\ display.images = 5
  /\ display.grid = "images-grid-4col"

\* C15: once loaded, with a display on the page, the display shows 'no data'
\* (not the error) when no sample of the input has the selected layout, as
\* when there is no sample or no selected layout; otherwise it renders the
\* first sample, in input order, of the selected layout.
C15_NoDataOrFirstSample ==
  (dvPc = "ready" /\ display # NoDisplay) =>
     IF currentLayout = EmptyStr \/ SamplesOf(input, currentLayout) = << >>
     THEN display = NoDataHTML
     ELSE LET first == Rendered(input, currentLayout)
          IN /\ display.kind = "sample"
             /\ display.layout = first.layout_type
             /\ display.images = first.images

\* Two samples of different image counts share the selected layout, and the
\* one on display is the first.
C15_Witness ==
  /\ dvPc = "ready"
  /\ Len(SamplesOf(input, currentLayout)) >= 2
  /\ SamplesOf(input, currentLayout)[1].images # SamplesOf(input, currentLayout)[2].images
  /\ display.kind = "sample"
  /\ display.images = SamplesOf(input, currentLayout)[1].images
  /\ dvLast.op \in {"prev", "next", "select", "keydown"}

\* C16: from the moment a successful copy marks the button 'copied', the
\* button carries the class until FeedbackMs after the most recent successful
\* copy and no longer: a copy made while the class is on restarts the delay,
\* and the timeout of an earlier copy does not remove the class before.
C16_CopiedUntilDelayAfterLastCopy ==
  copiedAt >= 0 =>
     /\ clock < copiedAt + FeedbackMs => "copied" \in classes
     /\ clock > copiedAt + FeedbackMs => "copied" \notin classes

\* C17: whenever the response of a task-data fetch has been applied, the task
\* on display is the task of that response, whichever task was selected last:
\* currentTaskId is its id, the trajectory selector lists its trajectories, and
\* the data of a response applied before it, while both fetches were in
\* flight, is in taskData as well.
C17_LastResponseWins ==
  last.op = "dataOk" =>
     LET data == ServerData(last.task)
     IN /\ currentTaskId = last.task
        /\ trajOptions = [k \in DOMAIN data.trajectories |-> data.trajectories[k].id]
        /\ last.task \in DOMAIN taskData
        /\ taskData[last.task] = data
        /\ raced # "" => (raced \in DOMAIN taskData /\ taskData[raced] = ServerData(raced))

\* Two fetches were in flight at once; the response of the task selected last
\* was applied first and the response of the task selected before it last: the
\* selector stands on the one, the display shows the other.
C17_Witness ==
  /\ last.op = "dataOk"
  /\ raced \notin {"", last.task}
  /\ InFlight = 0
  /\ taskValue = raced
  /\ currentTaskId = last.task
  /\ Len(trajOptions) > 0

\* At most one autoplay timer exists, it is the one playInterval holds, and
\* isPlaying is true exactly when playInterval is not null.
OneTimerIffPlaying ==
  /\ Cardinality(DOMAIN timers) <= 1
  /\ isPlaying <=> playInterval # 0
  /\ DOMAIN timers = IF playInterval # 0 THEN {playInterval} ELSE {}

\* C18: initially and after every step, whatever the interleaving of clicks,
\* responses and ticks, at most one autoplay timer exists and isPlaying is
\* true exactly when a timer is pending (playInterval is not null); only the
\* play/pause click and a tick of the timer (its auto-stop) create or cancel
\* a timer.
C18_OneTimerIffPlaying ==
  /\ OneTimerIffPlaying
  /\ [][/\ OneTimerIffPlaying'
        /\ timers' # timers => last'.op \in {"playPause", "tick"}
        /\ (timers' # timers /\ last'.op = "tick") => timers' = << >>]_vars

\* Playback goes on while the response of a task selected during it has been
\* applied: one timer, held by playInterval.
C18_Witness ==
  /\ isPlaying
  /\ last.op = "dataOk"
  /\ playInterval # 0
  /\ DOMAIN timers = {playInterval}
  /\ requested # {}

\* C19: a tick of the timer that finds the playback running with the
\* displayed trajectory at its final step returns the playback to paused, also
\* when that trajectory was selected after the playback had started. (Ticks
\* change nothing else in such a state, so a tick that fails to pause there
\* leaves the playback running for as long as only ticks follow.)
C19_TickAtFinalStepPauses ==
  [][(/\ last'.op = "tick"
      /\ isPlaying
      /\ HasTrajectory(Cur)
      /\ currentStepIndex = TotalSteps(Cur) - 1) => ~isPlaying']_vars

\* What C20 says of a state S reached by navigateToStep(i) on N steps.
NavigatedTo(S, i, N) ==
  /\ S.currentStepIndex = i
  /\ \A k \in DOMAIN S.container.steps :
       S.container.steps[k].cls =
         CASE k - 1 < i -> "timeline-step completed"
           [] k - 1 = i -> "timeline-step active"
           [] OTHER -> "timeline-step"
  /\ S.container.kind = "timeline" => Len(S.container.steps) = N
  /\ S.prevDisabled <=> i = 0
  /\ S.nextDisabled <=> i = N - 1

\* C20: navigateToStep(i) with 0 <= i < N, called in any reachable state,
\* makes i the current step, every marker before i 'completed', marker i the
\* only 'active' one (the timeline on display has one marker per step), every
\* marker after i pending, 'previous' disabled exactly when i = 0 and 'next'
\* exactly when i = N - 1; a click on marker i of the timeline of the selected
\* trajectory leaves the viewer in that state.
C20_NavigateToStepMarksTimeline ==
  /\ HasTrajectory(Cur) =>
       \A i \in 0..(TotalSteps(Cur) - 1) :
          NavigatedTo(navigateToStep(Cur, i), i, TotalSteps(Cur))
  /\ (last.op = "marker" /\ HasTrajectory(Cur)) =>
       (last.step < TotalSteps(Cur) /\ NavigatedTo(Cur, last.step, TotalSteps(Cur)))

\* A click on the marker in the middle of the longest timeline: one marker
\* completed, one active, one pending, and both buttons enabled.
C20_Witness ==
  /\ last.op = "marker"
  /\ last.step = 1
  /\ last.was # 1
  /\ currentStepIndex = 1
  /\ Len(container.steps) = MaxSteps
  /\ container.steps[1].cls = "timeline-step completed"
  /\ container.steps[2].cls = "timeline-step active"
  /\ container.steps[MaxSteps].cls = "timeline-step"
  /\ ~prevDisabled
  /\ ~nextDisabled

\* C21: after the data of a task with trajectories has been applied, and after
\* every change of the trajectory selector, the newly selected trajectory (the
\* first of the task's trajectories after a load, the selector's value after a
\* selection) has its timeline on display with one marker per step, and the
\* current step index is 0 whatever it was before.
C21_SelectionRebuildsTimelineAtStepZero ==
  LET data == ServerData(last.task)
      loaded == last.op = "dataOk" /\ Len(data.trajectories) > 0
      selected == last.op = "trajectorySelect"
  IN (loaded \/ selected) =>
       /\ loaded => (currentTaskId = last.task /\
                     currentTrajectoryId = data.trajectories[1].id)
       /\ selected => currentTrajectoryId = last.task
       /\ HasTrajectory(Cur)
       /\ container.kind = "timeline"
       /\ Len(container.steps) = TotalSteps(Cur)
       /\ currentStepIndex = 0

\* C22: whenever the selected trajectory exists and has at least one step,
\* the current step index is one of its steps: 0 <= currentStepIndex <=
\* steps.length - 1, whatever clicks, ticks (also of a timer started on
\* another trajectory), selections and loads have led to the state.
C22_StepIndexInRange ==
  (HasTrajectory(Cur) /\ TotalSteps(Cur) >= 1) =>
     (0 <= currentStepIndex /\ currentStepIndex <= TotalSteps(Cur) - 1)

\* A timer started on a longer trajectory has ticked on the one selected now,
\* asking for a step that trajectory does not have.
C22_Witness ==
  /\ last.op = "tick"
  /\ HasTrajectory(Cur)
  /\ TotalSteps(Cur) >= 1
  /\ last.step >= TotalSteps(Cur)
  /\ isPlaying
  /\ currentStepIndex = TotalSteps(Cur) - 1

====
